---- MODULE Spec2Model ----
(***************************************************************************)
(* Model of src/main.py: the Rakbank POC Kafka webhook.  One FastAPI       *)
(* application whose six `async def` handlers share the module-level list  *)
(* `received_transactions`.  uvicorn runs the application on one event     *)
(* loop (main.py:160-166, workers defaults to 1): a handler coroutine      *)
(* keeps the loop until it reaches an `await` or returns, and the handler  *)
(* bodies contain no `await`.  The wall clock read by datetime.now()       *)
(* advances independently of the loop.                                     *)
(***************************************************************************)
EXTENDS Integers, Sequences, FiniteSets, TLC

VARIABLES
    received_transactions,  \* main.py:31, the shared list
    req,                    \* the in-flight requests: one coroutine frame per connection slot
    running,                \* the slot whose coroutine holds the event loop, 0 when the loop is free
    clock,                  \* the wall clock in ticks, as datetime.now() last read it
    sent,                   \* the request the last step answered, with its response
    handled                 \* history: the validated bodies of the single-ingest calls, in the order their handlers were entered

vars == <<received_transactions, req, running, clock, sent, handled>>

(***************************************************************************)
(* Bounds of the model.                                                    *)
(***************************************************************************)
MaxSlots == 2          \* concurrent connections
MaxStore == 3          \* records admitted under Spec
MaxClock == 2          \* clock ticks under Spec
TicksPerSecond == 2    \* resolution of the modelled clock below one second
MaxStoreSeq == 5       \* records admitted under SpecSeq
MaxStoreLong == 12     \* records admitted under SpecLong
MaxClockSeq == 0       \* clock ticks under SpecSeq and SpecLong

Slots == 1..MaxSlots

(***************************************************************************)
(* Values.  A JSON value of a request body and a Python value of a stored  *)
(* dict are tagged records; a string is the sequence of its characters.    *)
(***************************************************************************)
Absent == [t |-> "absent", n |-> 0, s |-> <<>>]   \* the key is not in the JSON object
Null == [t |-> "null", n |-> 0, s |-> <<>>]       \* JSON null, Python None
JInt(n) == [t |-> "int", n |-> n, s |-> <<>>]
JStr(s) == [t |-> "str", n |-> 0, s |-> s]
Invalid == [t |-> "invalid", n |-> 0, s |-> <<>>] \* the outcome of a failed coercion

Key(v) == [has |-> TRUE, v |-> v]                 \* a dict key holding v
NoKey == [has |-> FALSE, v |-> 0]                 \* a dict without the (integer) key

Digits == <<"0", "1", "2", "3", "4", "5", "6", "7", "8", "9">>

IsDigit(c) == \E d \in 1..10 : Digits[d] = c

DigitValue(c) == (CHOOSE d \in 1..10 : Digits[d] = c) - 1

RECURSIVE DigitsValue(_)
DigitsValue(s) ==
    IF s = <<>> THEN 0
    ELSE 10 * DigitsValue(SubSeq(s, 1, Len(s) - 1)) + DigitValue(s[Len(s)])

IsIntLiteral(s) ==
    LET body == IF s # <<>> /\ s[1] = "-" THEN Tail(s) ELSE s
    IN  body # <<>> /\ \A k \in 1..Len(body) : IsDigit(body[k])

ParseInt(s) ==
    IF s[1] = "-" THEN 0 - DigitsValue(Tail(s)) ELSE DigitsValue(s)

\* Optional[int] = None (main.py:24-25): a missing key or null gives None, an
\* integer is kept, a string holding an integer literal is converted, any
\* other string is rejected.
CoerceIntLenient(v) ==
    CASE v.t = "absent" -> Null
      [] v.t = "null" -> Null
      [] v.t = "int" -> v
      [] v.t = "str" -> IF IsIntLiteral(v.s) THEN JInt(ParseInt(v.s)) ELSE Null

CoerceInt(v) ==
    CASE v.t = "absent" -> Null
      [] v.t = "null" -> Null
      [] v.t = "int" -> v
      [] v.t = "str" -> IF IsIntLiteral(v.s) THEN JInt(ParseInt(v.s)) ELSE Invalid

\* Optional[str] = None (main.py:26-28), for the inputs the model sends:
\* a missing key, null or a string.
CoerceStr(v) ==
    CASE v.t = "absent" -> Null
      [] v.t = "null" -> Null
      [] v.t = "str" -> v

\* class UserTransaction (main.py:23-28): the five declared fields are
\* coerced, any other key of the object (here `key`) is dropped.
UserTransaction(obj) ==
    [authorizer_usrnbr |-> CoerceInt(obj.authorizer_usrnbr),
     creat_usrnbr |-> CoerceInt(obj.creat_usrnbr),
     creat_time |-> CoerceStr(obj.creat_time),
     data |-> CoerceStr(obj.data),
     usrname |-> CoerceStr(obj.usrname)]

IsValidModel(m) ==
    /\ m.authorizer_usrnbr # Invalid
    /\ m.creat_usrnbr # Invalid
    /\ m.creat_time # Invalid
    /\ m.data # Invalid
    /\ m.usrname # Invalid

\* The body parameter of the two POST handlers (main.py:48 and main.py:94):
\* the single endpoint takes a JSON object, the batch endpoint a JSON array
\* of objects; every element must validate or the request is refused before
\* the handler runs.
BodyValidates(kind, body) ==
    /\ body.json = (IF kind = "single" THEN "object" ELSE "array")
    /\ \A k \in 1..Len(body.items) : IsValidModel(UserTransaction(body.items[k]))

ParseBody(body) == [k \in 1..Len(body.items) |-> UserTransaction(body.items[k])]

\* datetime.now().isoformat() (main.py:56): the date and time to the second,
\* then the fraction of the second.
IsoFormat(t) == [date_time |-> t \div TicksPerSecond, fraction |-> t % TicksPerSecond]

\* datetime.now().strftime("%Y%m%d_%H%M%S") (main.py:100): the date and time
\* to the second, the fraction dropped.
StrfTime(t) == t \div TicksPerSecond

NoTime == [has |-> FALSE, v |-> IsoFormat(0)]     \* a dict without the (timestamp) key

\* transaction.dict() (main.py:55, main.py:103): the five model fields; the
\* keys received_at, batch_id and poc_id are not set yet.
Dict(m) ==
    [authorizer_usrnbr |-> m.authorizer_usrnbr,
     creat_usrnbr |-> m.creat_usrnbr,
     creat_time |-> m.creat_time,
     data |-> m.data,
     usrname |-> m.usrname,
     received_at |-> NoTime,
     batch_id |-> NoKey,
     poc_id |-> NoKey]

\* len(received_transactions) + 1 (main.py:57, main.py:106)
PocIdOffByOne(store) == Len(store)

PocId(store) == Len(store) + 1

\* received_transactions.append(transaction_dict) (main.py:60, main.py:108)
StoreInsertFront(store, d) == <<d>> \o store

StoreOverwriteLast(store, d) ==
    IF store = <<>> THEN <<d>> ELSE [store EXCEPT ![Len(store)] = d]

StoreAppend(store, d) == Append(store, d)

\* A Python slice lst[start:] with its index normalisation: a negative start
\* counts from the end, and is clamped to the list.
SliceFrom(lst, start) ==
    LET n == Len(lst)
        s0 == IF start < 0 THEN start + n ELSE start
        s1 == IF s0 < 0 THEN 0 ELSE IF s0 > n THEN n ELSE s0
    IN  SubSeq(lst, s1 + 1, n)

RecentWindow == 10     \* main.py:88, received_transactions[-10:]

(***************************************************************************)
(* The responses of the handlers, as functions of what each handler reads. *)
(***************************************************************************)
\* root (main.py:33-45)
root(store, now) ==
    [status_code |-> 200,
     status |-> "running",
     timestamp |-> IsoFormat(now),
     total_received |-> Len(store)]

\* get_received_transactions (main.py:81-91)
RecentFirstTen(store, now) ==
    [status_code |-> 200,
     total_count |-> Len(store),
     last_10_transactions |->
         SubSeq(store, 1, IF Len(store) < RecentWindow THEN Len(store) ELSE RecentWindow),
     last_updated |-> IsoFormat(now),
     poc_status |-> "active"]

get_received_transactions(store, now) ==
    [status_code |-> 200,
     total_count |-> Len(store),
     last_10_transactions |->
         IF store # <<>> THEN SliceFrom(store, 0 - RecentWindow) ELSE <<>>,
     last_updated |-> IsoFormat(now),
     poc_status |-> "active"]

\* health_check (main.py:124-131)
health_check(store, now) ==
    [status_code |-> 200,
     status |-> "healthy",
     timestamp |-> IsoFormat(now),
     total_transactions |-> Len(store)]

\* t.get("usrname") is truthy (main.py:146): neither None nor the empty string
Truthy(v) == v.t = "str" /\ v.s # <<>>

\* users = [t.get("usrname") for t in received_transactions if t.get("usrname")]
\* (main.py:146)
UsersAll(store) ==
    [k \in 1..Len(store) |-> store[k].usrname]

Users(store) ==
    LET keep(t) == Truthy(t.usrname)
        kept == SelectSeq(store, keep)
    IN  [k \in 1..Len(kept) |-> kept[k].usrname]

Range(seq) == {seq[k] : k \in 1..Len(seq)}

\* list(set(users)) (main.py:147): the elements of the set, each once, in an
\* order the language does not define.
ListOfSet(S) ==
    {f \in [1..Cardinality(S) -> S] : Range(f) = S}

\* poc_statistics (main.py:133-156): every response the handler can give
\* (one per enumeration order of the set of users).
StatisticsWaitsForTwo(store) ==
    IF Len(store) <= 1
    THEN {[status_code |-> 200,
           status |-> "waiting_for_data",
           total_count |-> 0]}
    ELSE {[status_code |-> 200,
           total_transactions |-> Len(store),
           unique_users |-> Len(unique_users),
           user_list |-> unique_users,
           first_transaction |-> store[1].received_at.v,
           last_transaction |-> store[Len(store)].received_at.v,
           poc_status |-> "collecting_data"] :
              unique_users \in ListOfSet(Range(Users(store)))}

poc_statistics(store) ==
    IF store = <<>>
    THEN {[status_code |-> 200,
           status |-> "waiting_for_data",
           total_count |-> 0]}
    ELSE {[status_code |-> 200,
           total_transactions |-> Len(store),
           unique_users |-> Len(unique_users),
           user_list |-> unique_users,
           first_transaction |-> store[1].received_at.v,
           last_transaction |-> store[Len(store)].received_at.v,
           poc_status |-> "collecting_data"] :
              unique_users \in ListOfSet(Range(Users(store)))}

\* the 422 response FastAPI gives when the body does not validate
ValidationError == [status_code |-> 422]

(***************************************************************************)
(* Coroutine frames.  pc names the source line the coroutine executes      *)
(* next: "recv" while the framework reads and validates the body, "ready"  *)
(* once the handler can be entered; the frame is dropped when the handler  *)
(* returns.                                                                *)
(***************************************************************************)
IngestKinds == {"single", "batch"}

ReadKinds == {"root", "list", "health", "stats"}

NoBody == [json |-> "none", items |-> <<>>]

NoResponse == [status_code |-> 0]

NoModel ==
    [authorizer_usrnbr |-> Null, creat_usrnbr |-> Null, creat_time |-> Null,
     data |-> Null, usrname |-> Null]

EmptyFrame ==
    [kind |-> "none",
     pc |-> "none",
     body |-> NoBody,             \* the JSON body as sent
     transactions |-> <<>>,       \* the validated body: the handler's parameter
     received_count |-> 0,        \* main.py:99
     batch_id |-> NoKey,          \* main.py:100
     transaction_dict |-> Dict(NoModel),
     count_before |-> 0]          \* history: len(received_transactions) when the handler was entered

\* The answer to the request of frame f.
Answer(f, response) ==
    [kind |-> f.kind,
     body |-> f.body,
     transactions |-> f.transactions,
     count_before |-> f.count_before,
     response |-> response]

NoAnswer == Answer(EmptyFrame, NoResponse)

\* Where a coroutine gives the event loop back: while the framework awaits
\* the body, between validation and the handler, and once it has returned.
\* The handler bodies (main.py:53-75, main.py:98-118) hold no await.
SuspendsBeforeAppend(pc) == pc \in {"none", "recv", "ready", "s60", "b108"}

SuspendsInBatchLoop(pc) == pc \in {"none", "recv", "ready", "b102"}

Suspends(pc) == pc \in {"none", "recv", "ready"}

CanRun(r) == running = 0 \/ running = r

\* One step of the coroutine in slot r, leaving it in frame f.
Step(r, f) ==
    /\ CanRun(r)
    /\ req' = [req EXCEPT ![r] = f]
    /\ running' = IF Suspends(f.pc) THEN 0 ELSE r

\* The last step of the coroutine in slot r: it returns `response`.
Return(r, response) ==
    /\ Step(r, EmptyFrame)
    /\ sent' = Answer(req[r], response)

\* The records the ingest request in slot r has yet to append.
Pending(r) ==
    LET f == req[r]
    IN  IF f.kind = "single" THEN (IF f.pc = "s69" THEN 0 ELSE 1)
        ELSE IF f.kind = "batch" THEN Len(f.body.items) - f.received_count
        ELSE 0

RECURSIVE PendingUpTo(_)
PendingUpTo(r) == IF r = 0 THEN 0 ELSE Pending(r) + PendingUpTo(r - 1)

Admitted(body, cap) ==
    Len(received_transactions) + PendingUpTo(MaxSlots) + Len(body.items) <= cap

Init ==
    /\ received_transactions = <<>>
    /\ req = [r \in Slots |-> EmptyFrame]
    /\ running = 0
    /\ clock = 0
    /\ sent = NoAnswer
    /\ handled = <<>>

\* datetime.now(): the wall clock advances whatever the event loop is doing,
\* so a read gives any time from the last one read on.
Now(cap) == \E t \in clock..cap : clock' = t

\* A request reaches the server on a free connection.
Arrive(r, kind, body, cap) ==
    /\ req[r].kind = "none"
    /\ Admitted(body, cap)
    /\ Step(r, [EmptyFrame EXCEPT
                  !.kind = kind,
                  !.pc = IF kind \in IngestKinds THEN "recv" ELSE "ready",
                  !.body = body])
    /\ sent' = NoAnswer
    /\ UNCHANGED <<received_transactions, clock, handled>>

\* The framework validates the body against the handler's parameter
\* (main.py:48, main.py:94) before the handler is entered, and answers 422
\* itself when the body does not validate.
Validate(r) ==
    /\ req[r].pc = "recv"
    /\ IF BodyValidates(req[r].kind, req[r].body)
       THEN /\ Step(r, [req[r] EXCEPT !.pc = "ready",
                                      !.transactions = ParseBody(req[r].body)])
            /\ sent' = NoAnswer
       ELSE Return(r, ValidationError)
    /\ UNCHANGED <<received_transactions, clock, handled>>

\* The statements inside the handlers' try blocks raise nothing on a
\* validated body, so the except branches (main.py:77-79, main.py:120-122)
\* are never taken and have no action here.

\* receive_user_transaction, main.py:55-56
Single55(r, cap) ==
    /\ req[r].kind = "single" /\ req[r].pc = "ready"
    /\ Now(cap)
    /\ Step(r, [req[r] EXCEPT
                  !.pc = "s57",
                  !.count_before = Len(received_transactions),
                  !.transaction_dict =
                      [Dict(req[r].transactions[1]) EXCEPT
                         !.received_at = Key(IsoFormat(clock'))]])
    /\ handled' = Append(handled, req[r].transactions[1])
    /\ sent' = NoAnswer
    /\ UNCHANGED received_transactions

\* receive_user_transaction, main.py:57
Single57(r) ==
    /\ req[r].pc = "s57"
    /\ Step(r, [req[r] EXCEPT
                  !.pc = "s60",
                  !.transaction_dict.poc_id = Key(PocId(received_transactions))])
    /\ sent' = NoAnswer
    /\ UNCHANGED <<received_transactions, clock, handled>>

\* receive_user_transaction, main.py:60
Single60(r) ==
    /\ req[r].pc = "s60"
    /\ received_transactions' =
           StoreAppend(received_transactions, req[r].transaction_dict)
    /\ Step(r, [req[r] EXCEPT !.pc = "s69"])
    /\ sent' = NoAnswer
    /\ UNCHANGED <<clock, handled>>

\* receive_user_transaction, main.py:69-75
Single69(r) ==
    /\ req[r].pc = "s69"
    /\ Return(r, [status_code |-> 200,
                  status |-> "success",
                  poc_id |-> req[r].transaction_dict.poc_id.v,
                  user |-> req[r].transactions[1].usrname,
                  received_at |-> req[r].transaction_dict.received_at.v])
    /\ UNCHANGED <<received_transactions, clock, handled>>

\* transaction_dict["batch_id"] = batch_id (main.py:105): the local computed
\* once, before the loop.
BatchIdPerRecord(batch_id, now) == Key(StrfTime(now))

BatchIdOfRecord(batch_id, now) == batch_id

\* receive_batch_transactions, main.py:99-100
Batch99(r, cap) ==
    /\ req[r].kind = "batch" /\ req[r].pc = "ready"
    /\ Now(cap)
    /\ Step(r, [req[r] EXCEPT
                  !.pc = "b102",
                  !.count_before = Len(received_transactions),
                  !.received_count = 0,
                  !.batch_id = Key(StrfTime(clock'))])
    /\ sent' = NoAnswer
    /\ UNCHANGED <<received_transactions, handled>>

\* receive_batch_transactions, main.py:102-105: the next element of the
\* loop, or the end of the loop
Batch102(r, cap) ==
    /\ req[r].pc = "b102"
    /\ IF req[r].received_count < Len(req[r].transactions)
       THEN /\ Now(cap)
            /\ Step(r, [req[r] EXCEPT
                          !.pc = "b106",
                          !.transaction_dict =
                              [Dict(req[r].transactions[req[r].received_count + 1]) EXCEPT
                                 !.received_at = Key(IsoFormat(clock')),
                                 !.batch_id = BatchIdOfRecord(req[r].batch_id, clock')]])
       ELSE /\ Step(r, [req[r] EXCEPT !.pc = "b113"])
            /\ UNCHANGED clock
    /\ sent' = NoAnswer
    /\ UNCHANGED <<received_transactions, handled>>

\* receive_batch_transactions, main.py:106
Batch106(r) ==
    /\ req[r].pc = "b106"
    /\ Step(r, [req[r] EXCEPT
                  !.pc = "b108",
                  !.transaction_dict.poc_id = Key(PocId(received_transactions))])
    /\ sent' = NoAnswer
    /\ UNCHANGED <<received_transactions, clock, handled>>

\* receive_batch_transactions, main.py:108-109
Batch108(r) ==
    /\ req[r].pc = "b108"
    /\ received_transactions' =
           StoreAppend(received_transactions, req[r].transaction_dict)
    /\ Step(r, [req[r] EXCEPT !.pc = "b102",
                              !.received_count = req[r].received_count + 1])
    /\ sent' = NoAnswer
    /\ UNCHANGED <<clock, handled>>

\* receive_batch_transactions, main.py:113-118
Batch113(r) ==
    /\ req[r].pc = "b113"
    /\ Return(r, [status_code |-> 200,
                  status |-> "success",
                  received_count |-> req[r].received_count,
                  batch_id |-> req[r].batch_id.v,
                  total_received |-> Len(received_transactions)])
    /\ UNCHANGED <<received_transactions, clock, handled>>

\* The four GET handlers: each is one expression.
Root(r, cap) ==
    /\ req[r].kind = "root" /\ req[r].pc = "ready"
    /\ Now(cap)
    /\ Return(r, root(received_transactions, clock'))
    /\ UNCHANGED <<received_transactions, handled>>

ListRecent(r, cap) ==
    /\ req[r].kind = "list" /\ req[r].pc = "ready"
    /\ Now(cap)
    /\ Return(r, get_received_transactions(received_transactions, clock'))
    /\ UNCHANGED <<received_transactions, handled>>

Health(r, cap) ==
    /\ req[r].kind = "health" /\ req[r].pc = "ready"
    /\ Now(cap)
    /\ Return(r, health_check(received_transactions, clock'))
    /\ UNCHANGED <<received_transactions, handled>>

Statistics(r) ==
    /\ req[r].kind = "stats" /\ req[r].pc = "ready"
    /\ \E response \in poc_statistics(received_transactions) : Return(r, response)
    /\ UNCHANGED <<received_transactions, clock, handled>>

(***************************************************************************)
(* The request bodies the clients send.                                    *)
(***************************************************************************)
Obj(authorizer, creator, user) ==
    [authorizer_usrnbr |-> authorizer,
     creat_usrnbr |-> creator,
     creat_time |-> Absent,
     data |-> JStr(<<"d">>),
     usrname |-> user,
     key |-> JStr(<<"k">>)]       \* a key the model class does not declare

RawAlice == Obj(Absent, JInt(7), JStr(<<"a">>))

RawBob == Obj(JStr(<<"4", "2">>), Null, JStr(<<"b">>))

RawAnonymous == Obj(Absent, Absent, Null)

RawEmptyName == Obj(Absent, Absent, JStr(<<>>))

RawBad == Obj(JStr(<<"a", "b", "c">>), Absent, JStr(<<"a">>))

One(obj) == [json |-> "object", items |-> <<obj>>]

Many(objs) == [json |-> "array", items |-> objs]

Malformed == [json |-> "malformed", items |-> <<>>]

SingleBodies == {One(RawAlice), One(RawBob)}

BatchBodies == {Many(<<>>), Many(<<RawAlice, RawBob>>)}

SingleBodiesSeq ==
    {One(RawAlice), One(RawBob), One(RawAnonymous), One(RawBad), Malformed,
     Many(<<RawAlice>>)}

BatchBodiesSeq ==
    {Many(<<RawEmptyName, RawBob>>), Many(<<RawBob, RawBad>>), One(RawAlice)}

SingleBodiesLong == {One(RawAlice)}

BatchBodiesLong == {Many(<<RawAlice, RawBob, RawAlice>>)}

\* The steps of the two POST requests.
IngestHandler(r, cap) ==
    \/ Validate(r)
    \/ Single55(r, cap)
    \/ Single57(r)
    \/ Single60(r)
    \/ Single69(r)
    \/ Batch99(r, cap)
    \/ Batch102(r, cap)
    \/ Batch106(r)
    \/ Batch108(r)
    \/ Batch113(r)

\* The steps of the four GET requests.
ReadHandler(r, cap) ==
    \/ Root(r, cap)
    \/ ListRecent(r, cap)
    \/ Health(r, cap)
    \/ Statistics(r)

\* Concurrent clients of the two ingest endpoints.
Next ==
    \/ \E r \in Slots, body \in SingleBodies : Arrive(r, "single", body, MaxStore)
    \/ \E r \in Slots, body \in BatchBodies : Arrive(r, "batch", body, MaxStore)
    \/ \E r \in Slots : IngestHandler(r, MaxClock)

Spec == Init /\ [][Next]_vars

\* One client at a time, every endpoint, valid and invalid bodies, every
\* kind of user name.
NextSeq ==
    \/ \E kind \in ReadKinds : Arrive(1, kind, NoBody, MaxStoreSeq)
    \/ \E body \in SingleBodiesSeq : Arrive(1, "single", body, MaxStoreSeq)
    \/ \E body \in BatchBodiesSeq : Arrive(1, "batch", body, MaxStoreSeq)
    \/ IngestHandler(1, MaxClockSeq)
    \/ ReadHandler(1, MaxClockSeq)

SpecSeq == Init /\ [][NextSeq]_vars

\* One client at a time, a store longer than the window of List recent.
NextLong ==
    \/ \E kind \in ReadKinds : Arrive(1, kind, NoBody, MaxStoreLong)
    \/ \E body \in SingleBodiesLong : Arrive(1, "single", body, MaxStoreLong)
    \/ \E body \in BatchBodiesLong : Arrive(1, "batch", body, MaxStoreLong)
    \/ IngestHandler(1, MaxClockSeq)
    \/ ReadHandler(1, MaxClockSeq)

SpecLong == Init /\ [][NextLong]_vars

(***************************************************************************)
(* Properties.                                                             *)
(***************************************************************************)
\* The five fields of a stored record are those of the validated body m.
HasFields(d, m) ==
    /\ d.authorizer_usrnbr = m.authorizer_usrnbr
    /\ d.creat_usrnbr = m.creat_usrnbr
    /\ d.creat_time = m.creat_time
    /\ d.data = m.data
    /\ d.usrname = m.usrname

Succeeded(kind) == sent.kind = kind /\ sent.response.status_code = 200

\* C1: the k-th record of the store carries poc_id k, whether a single
\* ingest or a batch appended it; the poc_id an ingest is about to store is
\* the length of the store plus one, and the poc_id a single ingest returns
\* is the length of the store when its handler was entered plus one.
C1_SequenceIds ==
    /\ \A k \in 1..Len(received_transactions) :
           received_transactions[k].poc_id = Key(k)
    /\ \A r \in Slots :
           req[r].pc \in {"s60", "b108"} =>
               req[r].transaction_dict.poc_id = Key(Len(received_transactions) + 1)
    /\ Succeeded("single") =>
           /\ sent.response.poc_id = sent.count_before + 1
           /\ sent.response.poc_id = Len(received_transactions)

\* A single ingest has just returned poc_id 3, after a batch of two.
C1_Witness ==
    /\ Succeeded("single")
    /\ sent.response.poc_id = 3
    /\ received_transactions[1].batch_id.has
    /\ received_transactions[2].batch_id.has
    /\ received_transactions[2].poc_id = Key(2)

IsSingleRecord(d) == ~d.batch_id.has

SingleInProgress == \E r \in Slots : req[r].pc \in {"s57", "s60", "s69"}

\* C2: the records the single ingests appended are, in store order, the
\* bodies of the calls in the order the handlers were entered; and when only
\* single ingests have run and none is in progress, the store holds exactly
\* one record per call and every read endpoint reports that count.
C2_AppendOnlyGrowth ==
    LET singles == SelectSeq(received_transactions, IsSingleRecord)
        N == Len(handled)
    IN  /\ Len(singles) <= N
        /\ \A k \in 1..Len(singles) : HasFields(singles[k], handled[k])
        /\ (~SingleInProgress) => Len(singles) = N
        /\ (~SingleInProgress /\ singles = received_transactions) =>
               /\ Len(received_transactions) = N
               /\ root(received_transactions, clock).total_received = N
               /\ get_received_transactions(received_transactions, clock).total_count = N
               /\ health_check(received_transactions, clock).total_transactions = N
               /\ \A resp \in poc_statistics(received_transactions) :
                      IF N = 0 THEN resp.total_count = N
                      ELSE resp.total_transactions = N

\* Three single ingests have returned: the store holds their bodies a, b, a
\* in the order of the calls.
C2_Witness ==
    /\ Succeeded("single")
    /\ Len(handled) = 3
    /\ handled[1].usrname = JStr(<<"a">>)
    /\ handled[2].usrname = JStr(<<"b">>)
    /\ Len(received_transactions) = 3
    /\ \A k \in 1..3 : IsSingleRecord(received_transactions[k])
    /\ received_transactions[1].usrname = JStr(<<"a">>)
    /\ received_transactions[2].usrname = JStr(<<"b">>)
    /\ received_transactions[3].usrname = JStr(<<"a">>)

ListRecentIsRight(resp) ==
    LET n == Len(received_transactions)
        m == IF n < 10 THEN n ELSE 10
    IN  /\ resp.total_count = n
        /\ Len(resp.last_10_transactions) = m
        /\ \A k \in 1..m :
               resp.last_10_transactions[k] = received_transactions[n - m + k]
        /\ n < 10 => resp.last_10_transactions = received_transactions
        /\ n = 0 => resp.last_10_transactions = <<>>

C4_Batch ==
    Succeeded("batch") =>
        LET n == Len(sent.body.items)
            before == sent.count_before
        IN  /\ Len(received_transactions) = before + n
            /\ sent.response.total_received = before + n
            /\ sent.response.received_count = n
            /\ \A k \in 1..n :
                   /\ HasFields(received_transactions[before + k], sent.transactions[k])
                   /\ received_transactions[before + k].batch_id
                          = Key(sent.response.batch_id)

\* A batch of two has returned on a store of one record, and the clock
\* passed a second between the batch_id and the second record.
C4_Witness ==
    /\ Succeeded("batch")
    /\ Len(sent.body.items) = 2
    /\ sent.count_before = 1
    /\ sent.response.total_received = 3
    /\ received_transactions[3].received_at.v.date_time > sent.response.batch_id

\* A JSON value no integer field accepts: a string that is no integer literal.
NotAnInteger(v) == v.t = "str" /\ ~IsIntLiteral(v.s)

\* A body the single-ingest endpoint cannot coerce into a UserTransaction.
FailsCoercion(body) ==
    \/ body.json # "object"
    \/ \E k \in 1..Len(body.items) :
           \/ NotAnInteger(body.items[k].authorizer_usrnbr)
           \/ NotAnInteger(body.items[k].creat_usrnbr)

\* C5: the only step a single-ingest request with a body that fails type
\* coercion takes is the validation-failure response, and that step leaves
\* the store as it was.
C5_ValidationFailure ==
    [][\A r \in Slots :
           (/\ req[r].kind = "single"
            /\ FailsCoercion(req[r].body)
            /\ req'[r] # req[r]) =>
               /\ sent'.kind = "single"
               /\ sent'.body = req[r].body
               /\ sent'.response = ValidationError
               /\ received_transactions' = received_transactions]_vars

\* A single ingest with authorizer_usrnbr "abc" has been refused on a store
\* of two records.
C5_Witness ==
    /\ sent.kind = "single"
    /\ sent.body = One(RawBad)
    /\ sent.response.status_code = 422
    /\ Len(received_transactions) = 2

\* The distinct non-empty user names of the store.
DistinctUserNames ==
    {received_transactions[k].usrname : k \in 1..Len(received_transactions)}
        \ {Null, JStr(<<>>)}

StatisticsIsRight(resp) ==
    /\ resp.total_transactions = Len(received_transactions)
    /\ resp.unique_users = Cardinality(DistinctUserNames)
    /\ Len(resp.user_list) = Cardinality(DistinctUserNames)
    /\ Range(resp.user_list) = DistinctUserNames

\* C6: on a non-empty store every response Statistics can give, and the one
\* a Statistics request was just given, counts the distinct non-empty user
\* names, lists exactly those, each once, and reports the store's length.
C6_DistinctUsers ==
    received_transactions # <<>> =>
        /\ \A resp \in poc_statistics(received_transactions) : StatisticsIsRight(resp)
        /\ Succeeded("stats") => StatisticsIsRight(sent.response)

\* Statistics has answered 2 users, a and b, on user names a, b, a, null, b.
C6_Witness ==
    /\ Succeeded("stats")
    /\ Len(received_transactions) = 5
    /\ received_transactions[1].usrname = JStr(<<"a">>)
    /\ received_transactions[2].usrname = JStr(<<"b">>)
    /\ received_transactions[3].usrname = JStr(<<"a">>)
    /\ received_transactions[4].usrname = Null
    /\ received_transactions[5].usrname = JStr(<<"b">>)
    /\ sent.response.unique_users = 2
    /\ Range(sent.response.user_list) = {JStr(<<"a">>), JStr(<<"b">>)}

IsWaiting(resp) ==
    "status" \in DOMAIN resp /\ resp.status = "waiting_for_data"

WaitingIffEmpty(resp) ==
    /\ IsWaiting(resp) <=> received_transactions = <<>>
    /\ IsWaiting(resp) => resp.total_count = 0

\* C7: Statistics gives the waiting_for_data variant, with total_count 0,
\* exactly when the store is empty, and a store that holds a record never
\* becomes empty again.
C7_WaitingForData ==
    /\ [](/\ \A resp \in poc_statistics(received_transactions) : WaitingIffEmpty(resp)
          /\ Succeeded("stats") => WaitingIffEmpty(sent.response))
    /\ [][received_transactions # <<>> => received_transactions' # <<>>]_vars

\* Statistics has answered waiting_for_data before any ingestion.
C7_Witness ==
    /\ Succeeded("stats")
    /\ IsWaiting(sent.response)
    /\ sent.response.total_count = 0
    /\ received_transactions = <<>>
    /\ handled = <<>>

IsPrefix(a, b) == Len(a) <= Len(b) /\ SubSeq(b, 1, Len(a)) = a

\* C8: every step leaves the store a prefix of what it becomes; a step that
\* changes it adds one record and is the append of an ingest handler; a step
\* of a read request leaves it unchanged.
C8_AppendOnly ==
    [][/\ IsPrefix(received_transactions, received_transactions')
       /\ received_transactions' # received_transactions =>
              /\ Len(received_transactions') = Len(received_transactions) + 1
              /\ \E r \in Slots :
                     /\ req[r].kind \in IngestKinds
                     /\ req[r].pc \in {"s60", "b108"}
                     /\ req'[r] # req[r]
       /\ \A r \in Slots :
              (req[r].kind \in ReadKinds /\ req'[r] # req[r]) =>
                  received_transactions' = received_transactions]_vars

\* A read request has been answered on a store of three records.
C8_Witness ==
    /\ sent.kind \in ReadKinds
    /\ sent.response.status_code = 200
    /\ Len(received_transactions) = 3

InWindow(r) == req[r].pc \in {"s60", "b108"}

\* C9 as amended: an ingest handler that has read the length of the store
\* keeps the event loop until it has appended, so no two records of the
\* store carry the same poc_id.
C9_NoDuplicateIds ==
    /\ \A r \in Slots : InWindow(r) => running = r
    /\ \A i, j \in 1..Len(received_transactions) :
           i # j => received_transactions[i].poc_id # received_transactions[j].poc_id

\* One ingest is between its read of the length and its append while a
\* second, validated, waits for the event loop; the store is not empty.
C9_Witness ==
    \E r1, r2 \in Slots :
        /\ r1 # r2
        /\ InWindow(r1)
        /\ req[r2].kind \in IngestKinds
        /\ req[r2].pc = "ready"
        /\ received_transactions # <<>>

\* C9 as stated: the read of the length and the append are not one atomic
\* step, so that while one ingest is between the two a second ingest, ready
\* to be handled, can run and read the same length.
C9_RaceAsStated ==
    \A r1, r2 \in Slots :
        (/\ r1 # r2
         /\ InWindow(r1)
         /\ req[r2].kind \in IngestKinds
         /\ req[r2].pc = "ready") => CanRun(r2)

\* C10: while a batch handler runs, the records it has appended are the last
\* records of the store, in input order, with consecutive poc_id: no other
\* request has placed a record between or after them.
C10_BatchContiguous ==
    \A r \in Slots :
        (req[r].kind = "batch" /\ req[r].pc \in {"b102", "b106", "b108", "b113"}) =>
            LET c == req[r].received_count
                before == req[r].count_before
            IN  /\ Len(received_transactions) = before + c
                /\ \A k \in 1..c :
                       /\ HasFields(received_transactions[before + k],
                                    req[r].transactions[k])
                       /\ received_transactions[before + k].batch_id = req[r].batch_id
                       /\ received_transactions[before + k].poc_id = Key(before + k)

\* A batch has appended its first record and not yet its second, while a
\* single ingest, validated, waits for the event loop.
C10_Witness ==
    \E r1, r2 \in Slots :
        /\ req[r1].kind = "batch"
        /\ req[r1].pc \in {"b106", "b108"}
        /\ req[r1].received_count = 1
        /\ req[r2].kind = "single"
        /\ req[r2].pc = "ready"

====
